---- MODULE Spec2Model ----
(***************************************************************************)
(* Model of the ledger core of Income-accouting (src/ledger.go): the       *)
(* SQLite store with its three tables, and the Ledger operations that run  *)
(* SQL statements against it.  One client runs one call at a time; a call  *)
(* that issues several statements is a sequence of steps, and the steps of *)
(* different clients interleave.                                           *)
(***************************************************************************)
EXTENDS Integers, Sequences, FiniteSets, TLC

\* ------------------------------------------------------------------ bounds
\* Rows the categories table may ever receive (AUTOINCREMENT ids 1..MaxCats).
MaxCats == 2
\* Rows the transactions table may ever receive.
MaxTx == 2
\* Instants are counted in ticks since the Unix epoch; the last tick modelled.
MaxTick == 3
\* Ticks in one second: an instant may carry a sub-second part.
TicksPerSecond == 2
\* Bits in the significand of a floating-point number (float64 has 53; the
\* model keeps the format and its rounding at a width it can enumerate).
Precision == 14

\* ------------------------------------------------------------------- state
VARIABLES
    inputs,         \* the clients and the arguments they call with (fixed)
    categories,     \* table categories: rows [id, name]
    catSeq,         \* sqlite_sequence of categories (AUTOINCREMENT)
    budgets,        \* table budgets: rows [category_id, limit_kopeks]
    transactions,   \* table transactions: rows [id, category_id, ...]
    txSeq,          \* sqlite_sequence of transactions (AUTOINCREMENT)
    deleted,        \* history: ids of the categories deleted so far
    pc,             \* per client: where its call stands
    loc,            \* per client: the locals of its call
    last,           \* the call that returned last, with its result
    money,          \* the money conversion applied last, with its result
    during          \* history: per client in ExceededBudgets, what every
                    \* store state since its first read would have alerted on

vars == <<inputs, categories, catSeq, budgets, transactions, txSeq,
          deleted, pc, loc, last, money, during>>

store == <<categories, catSeq, budgets, transactions, txSeq>>

Procs == {"p1", "p2"}

\* The requests served at the same time.
clients == inputs.clients

\* ------------------------------------------------------------------- time
\* time.Time{}: year 1, before every instant the model dates anything at.
ZeroTime == -8
\* time.Unix(0, 0)
Epoch == 0

\* Faulty variant: no instant counts as unset.
IsZeroNever(t) == FALSE

IsZero(t) == t = ZeroTime

Before(a, b) == a < b

\* t.UTC().Format(time.RFC3339): the layout has no fractional seconds, so the
\* text keeps the whole second.  Texts of one layout and zone compare as the
\* seconds do (years 0000..9999), so the text is modelled by that number.
FormatRFC3339(t) == t \div TicksPerSecond

\* time.Now().UTC() as read by a call.
Now == MaxTick - 1

\* ------------------------------------------------------------ input domains
Names == {"a", "b"}
NameArgs == Names \cup {""}
CatArgs == 0 .. (MaxCats + 1)
TxIdArgs == 1 .. MaxTx
Instants == 1 .. MaxTick
Amounts == inputs.amounts
Notes == inputs.notes
InstantArgs == inputs.instants \cup {ZeroTime}
LimitArgs == inputs.limits \cup {0, -1}
QueryInstants == inputs.queries

\* ----------------------------------------------------------------- results
\* ledger.go returns untyped errors (errors.New, fmt.Errorf); the model names
\* each by the place that returns it and, where one place wraps several
\* driver errors, by the cause.  The record of a call holds its result and
\* the arguments it had examined when it returned.
NoError == ""

NoCall ==
    [op |-> "none", proc |-> "-", name |-> "", id |-> 0, cat |-> 0,
     amount |-> 0, at |-> ZeroTime, note |-> "", limit |-> 0,
     from |-> ZeroTime, to |-> ZeroTime, err |-> NoError, out |-> {}]

\* The error taxonomy of the specification (section 7) over those errors.
ErrorKind(e) ==
    CASE e \in {"ErrNameEmpty", "ErrCategoryIDMissing", "ErrDateMissing",
                "ErrLimitNotPositive"} -> "ValidationError"
      [] e \in {"ErrCategoryNotFound", "ErrTransactionNotFound",
                "ErrForeignKey"} -> "NotFoundError"
      [] e \in {"ErrUnique"} -> "ConflictError"
      [] e \in {"ErrBusy", "ErrNoRows"} -> "StorageError"
      [] OTHER -> "none"

\* ------------------------------------------------------------------ tables
CategoryIds == {c.id : c \in categories}

CategoryExists(id) == id \in CategoryIds

NameOf(id) == (CHOOSE c \in categories : c.id = id).name

\* Faulty variant: the name column is not UNIQUE.
NameTakenNever(name) == FALSE

\* name TEXT NOT NULL UNIQUE: the INSERT of a name the table holds is refused.
NameTaken(name) == \E c \in categories : c.name = name

\* Faulty variant: a PRIMARY KEY without AUTOINCREMENT, which gives the largest
\* stored id plus one and so hands out the id of a deleted last row again.
NextRowIdMax(seq, rows) ==
    LET ids == {r.id : r \in rows}
    IN IF ids = {} THEN 1
       ELSE (CHOOSE i \in ids : \A k \in ids : k <= i) + 1

\* id INTEGER PRIMARY KEY AUTOINCREMENT: one more than the largest id the
\* table ever held.
NextRowId(seq, rows) == seq + 1

\* Faulty variant: the check runs outside the transaction, which then holds no lock.
HoldsSharedNever(q) == FALSE

\* SQLite's file lock: a transaction that has read holds SHARED until it ends,
\* and a write commits only when no other connection holds SHARED.
HoldsShared(q) == pc[q] = "AT_insert"

CanCommit(p) == \A q \in clients \ {p} : ~HoldsShared(q)

\* Faulty variant: the existence check is missing.
SelectCategoryAlways(cat) == TRUE

\* SELECT 1 FROM categories WHERE id = ? finds a row.
SelectCategory(cat) == CategoryExists(cat)

\* Faulty variant: a limit of 0 passes.
LimitInvalidNegativeOnly(limit) == limit < 0

\* limitKopeks <= 0 is refused.
LimitInvalid(limit) == limit <= 0

\* Faulty variant: foreign keys are not enforced.
ForeignKeyOff(cat) == TRUE

\* REFERENCES categories(id) with foreign_keys(1): the parent row must exist.
ForeignKeyOk(cat) == CategoryExists(cat)

\* Faulty variant: the delete empties the budgets table.
CascadeBudgetsAll(rows, id) == {}

\* ON DELETE CASCADE of budgets.category_id and transactions.category_id.
CascadeBudgets(rows, id) == {b \in rows : b.category_id # id}

\* Faulty variant: the transactions of a deleted category stay.
CascadeTransactionsNone(rows, id) == rows

CascadeTransactions(rows, id) == {t \in rows : t.category_id # id}

\* Faulty variant: a plain INSERT into a table without the key.
UpsertRowInsertOnly(rows, cat, limit) ==
    rows \cup {[category_id |-> cat, limit_kopeks |-> limit]}

\* INSERT ... ON CONFLICT(category_id) DO UPDATE SET limit_kopeks = excluded.
UpsertRow(rows, cat, limit) ==
    IF \E b \in rows : b.category_id = cat
    THEN {IF b.category_id = cat THEN [b EXCEPT !.limit_kopeks = limit] ELSE b
            : b \in rows}
    ELSE rows \cup {[category_id |-> cat, limit_kopeks |-> limit]}

\* --------------------------------------------------------------- Summary
\* Faulty variant: the upper bound is exclusive.
BetweenHalfOpen(text, lo, hi) == lo <= text /\ text < hi

\* WHERE occurred_at BETWEEN ? AND ?: a comparison of the stored text with the
\* formatted bounds, inclusive on both ends.
Between(text, lo, hi) == lo <= text /\ text <= hi

\* Faulty variant: the income column sums every amount.
TermIncomeUnfiltered(row, col) ==
    CASE col = "income" -> row.amount_kopeks
      [] col = "expense" ->
            IF row.amount_kopeks < 0 THEN row.amount_kopeks ELSE 0
      [] col = "net" -> row.amount_kopeks

\* The three SUM(...) columns of the query, term by term.
Term(row, col) ==
    CASE col = "income" ->
            IF row.amount_kopeks >= 0 THEN row.amount_kopeks ELSE 0
      [] col = "expense" ->
            IF row.amount_kopeks < 0 THEN row.amount_kopeks ELSE 0
      [] col = "net" -> row.amount_kopeks

RECURSIVE SumColumn(_, _)
SumColumn(rows, col) ==
    IF rows = {} THEN 0
    ELSE LET r == CHOOSE x \in rows : TRUE
         IN Term(r, col) + SumColumn(rows \ {r}, col)

\* Faulty variant: a reversed range is not swapped.
QueryFromUnswapped(from, to) == IF IsZero(from) THEN Epoch ELSE from

\* The bounds as Summary passes them to the query.
QueryFrom(from, to) ==
    LET f == IF Before(to, from) THEN to ELSE from
    IN IF IsZero(f) THEN Epoch ELSE f

QueryTo(from, to) ==
    LET t == IF Before(to, from) THEN from ELSE to
    IN IF IsZero(t) THEN Now ELSE t

\* Faulty variant: one entry for every category that has a transaction at all.
SummaryRowsEveryCategory(rows, from, to) ==
    LET lo == FormatRFC3339(QueryFrom(from, to))
        hi == FormatRFC3339(QueryTo(from, to))
        hit == {r \in rows : Between(r.occurred_at, lo, hi)}
        group(c) == {r \in hit : r.category_id = c}
    IN {[CategoryID |-> c,
         IncomeKopeks |-> SumColumn(group(c), "income"),
         ExpenseKopeks |-> SumColumn(group(c), "expense"),
         NetKopeks |-> SumColumn(group(c), "net"),
         Count |-> Cardinality(group(c))] : c \in {r.category_id : r \in rows}}

\* SELECT category_id, SUM.., SUM.., SUM.., COUNT(*) ... GROUP BY category_id
SummaryRows(rows, from, to) ==
    LET lo == FormatRFC3339(QueryFrom(from, to))
        hi == FormatRFC3339(QueryTo(from, to))
        hit == {r \in rows : Between(r.occurred_at, lo, hi)}
        group(c) == {r \in hit : r.category_id = c}
    IN {[CategoryID |-> c,
         IncomeKopeks |-> SumColumn(group(c), "income"),
         ExpenseKopeks |-> SumColumn(group(c), "expense"),
         NetKopeks |-> SumColumn(group(c), "net"),
         Count |-> Cardinality(group(c))] : c \in {r.category_id : r \in hit}}

\* Faulty variant: the spent is taken from the net column.
ExpenseOfNet(summary, cat) ==
    IF \E s \in summary : s.CategoryID = cat
    THEN (CHOOSE s \in summary : s.CategoryID = cat).NetKopeks
    ELSE 0

\* byCat[categoryID].ExpenseKopeks: the zero value when the key is absent.
ExpenseOf(summary, cat) ==
    IF \E s \in summary : s.CategoryID = cat
    THEN (CHOOSE s \in summary : s.CategoryID = cat).ExpenseKopeks
    ELSE 0

\* Faulty variant: the comparison is not strict.
ExceedsOrEqual(spent, limit) == spent >= limit

Exceeds(spent, limit) == spent > limit

\* Faulty variant: every category is listed, with limit 0 where it has no budget.
BudgetRowsLeftJoin ==
    {[category_id |-> c.id,
      limit_kopeks |->
          IF \E b \in budgets : b.category_id = c.id
          THEN (CHOOSE b \in budgets : b.category_id = c.id).limit_kopeks
          ELSE 0] : c \in categories}

\* SELECT ... FROM budgets b JOIN categories c ON c.id = b.category_id
BudgetRows == {b \in budgets : CategoryExists(b.category_id)}

Alerts(summary, rows) ==
    {[CategoryID |-> b.category_id,
      CategoryName |-> NameOf(b.category_id),
      LimitKopeks |-> b.limit_kopeks,
      SpentKopeks |-> -ExpenseOf(summary, b.category_id),
      ExceededByKopeks |-> -ExpenseOf(summary, b.category_id) - b.limit_kopeks]
        : b \in {x \in rows :
                    Exceeds(-ExpenseOf(summary, x.category_id), x.limit_kopeks)}}

\* ------------------------------------------------------------------- money
RECURSIVE Pow2(_)
Pow2(k) == IF k = 0 THEN 1 ELSE 2 * Pow2(k - 1)

Abs(x) == IF x < 0 THEN -x ELSE x

\* The integer nearest to num / den, a tie going to the even one: the
\* rounding of every float64 operation.
RoundHalfEven(num, den) ==
    LET q == num \div den
        r == num % den
    IN IF 2 * r < den THEN q
       ELSE IF 2 * r > den THEN q + 1
       ELSE IF q % 2 = 0 THEN q ELSE q + 1

\* The least j >= from with num < den * 2^j * 2^Precision.
RECURSIVE ShiftDown(_, _, _)
ShiftDown(num, den, from) ==
    IF num < den * Pow2(from) * Pow2(Precision) THEN from
    ELSE ShiftDown(num, den, from + 1)

\* The least j >= from with num * 2^j >= den * 2^(Precision - 1).
RECURSIVE ShiftUp(_, _, _)
ShiftUp(num, den, from) ==
    IF num * Pow2(from) >= den * Pow2(Precision - 1) THEN from
    ELSE ShiftUp(num, den, from + 1)

\* A significand that rounding carried to 2^Precision moves to the next
\* exponent.
Carry(m, e) ==
    IF m = Pow2(Precision) THEN [m |-> Pow2(Precision - 1), e |-> e + 1]
    ELSE [m |-> m, e |-> e]

\* The floating-point number nearest to num / den * 2^exp (num >= 0,
\* den > 0): the magnitude m * 2^e with 2^(Precision-1) <= m < 2^Precision,
\* or m = 0.  The exponent is not bounded: no amount of the model comes near
\* float64's overflow or its subnormal numbers.
Nearest(num, den, exp) ==
    IF num = 0 THEN [m |-> 0, e |-> 0]
    ELSE IF num >= den * Pow2(Precision)
    THEN LET j == ShiftDown(num, den, 1)
         IN Carry(RoundHalfEven(num, den * Pow2(j)), exp + j)
    ELSE LET j == ShiftUp(num, den, 0)
         IN Carry(RoundHalfEven(num * Pow2(j), den), exp - j)

Signed(neg, mag) == [neg |-> neg, m |-> mag.m, e |-> mag.e]

\* strconv.ParseFloat(s, 64) of the decimal with two fractional digits whose
\* count of minor units is n (the text of n / 100): correctly rounded.
ParseFloat(n) == Signed(n < 0, Nearest(Abs(n), 100, 0))

\* float64(kopeks): the integer rounded to the significand.
Float64(n) == Signed(n < 0, Nearest(Abs(n), 1, 0))

\* x / d and x * k in float64, for a small integer d or k.
Quo(x, d) == Signed(x.neg, Nearest(x.m, d, x.e))

Product(x, k) == Signed(x.neg, Nearest(x.m * k, 1, x.e))

\* Faulty variant: the fraction is cut off (a conversion without math.Round).
MathTrunc(x) ==
    LET mag == IF x.e >= 0 THEN x.m * Pow2(x.e)
               ELSE IF -x.e > Precision THEN 0
               ELSE x.m \div Pow2(-x.e)
    IN IF x.neg THEN -mag ELSE mag

\* int64(math.Round(x)): the nearest integer, a half going away from zero.
\* The amounts of the model stay far inside int64, so the conversion of the
\* rounded value is exact.
MathRound(x) ==
    LET mag == IF x.e >= 0 THEN x.m * Pow2(x.e)
               ELSE IF -x.e > Precision + 1 THEN 0
               ELSE LET d == Pow2(-x.e)
                    IN (x.m \div d) + (IF 2 * (x.m % d) >= d THEN 1 ELSE 0)
    IN IF x.neg THEN -mag ELSE mag

rublesToKopeks(rub) == MathRound(Product(rub, 100))

kopeksToRubles(kopeks) == Quo(Float64(kopeks), 100)

\* The amounts converted: past the integers the significand holds exactly.
Kopeks == (-Pow2(Precision + 1)) .. Pow2(Precision + 1)

NoMoney ==
    [op |-> "none", of |-> "none", n |-> 0,
     rub |-> [neg |-> FALSE, m |-> 0, e |-> 0], out |-> 0]

\* ---------------------------------------------------------------- actions
Idle(p) == p \in clients /\ pc[p] = "idle"

Return(p, r) ==
    /\ last' = [r EXCEPT !.proc = p]
    /\ pc' = [pc EXCEPT ![p] = "idle"]
    /\ loc' = [loc EXCEPT ![p] = NoCall]

CreateCategory(p, name) ==
    LET call == [NoCall EXCEPT !.op = "CreateCategory", !.name = name]
        id == NextRowId(catSeq, categories)
    IN
    /\ Idle(p)
    /\ UNCHANGED <<money, inputs, budgets, transactions, txSeq, deleted>>
    /\ IF name = ""
       THEN /\ Return(p, [call EXCEPT !.err = "ErrNameEmpty"])
            /\ UNCHANGED <<categories, catSeq>>
       ELSE IF NameTaken(name)
       THEN /\ Return(p, [call EXCEPT !.err = "ErrUnique"])
            /\ UNCHANGED <<categories, catSeq>>
       ELSE IF ~CanCommit(p)
       THEN /\ Return(p, [call EXCEPT !.err = "ErrBusy"])
            /\ UNCHANGED <<categories, catSeq>>
       ELSE /\ catSeq < MaxCats
            /\ categories' = categories \cup {[id |-> id, name |-> name]}
            /\ catSeq' = id
            /\ Return(p, [call EXCEPT !.id = id])

DeleteCategory(p, id) ==
    LET call == [NoCall EXCEPT !.op = "DeleteCategory", !.id = id]
    IN
    /\ Idle(p)
    /\ UNCHANGED <<money, inputs, catSeq, txSeq>>
    /\ IF ~CategoryExists(id)
       THEN /\ Return(p, [call EXCEPT !.err = "ErrCategoryNotFound"])
            /\ UNCHANGED <<categories, budgets, transactions, deleted>>
       ELSE IF ~CanCommit(p)
       THEN /\ Return(p, [call EXCEPT !.err = "ErrBusy"])
            /\ UNCHANGED <<categories, budgets, transactions, deleted>>
       ELSE /\ categories' = {c \in categories : c.id # id}
            /\ budgets' = CascadeBudgets(budgets, id)
            /\ transactions' = CascadeTransactions(transactions, id)
            /\ deleted' = deleted \cup {id}
            /\ Return(p, call)

\* AddTransaction up to the existence check inside the transaction.
AddTransactionCheck(p, cat, amount, at, note) ==
    LET seen == [NoCall EXCEPT !.op = "AddTransaction", !.cat = cat]
        call == [seen EXCEPT !.at = at]
    IN
    /\ Idle(p)
    /\ UNCHANGED <<money, inputs, categories, catSeq, budgets, transactions, txSeq,
                   deleted>>
    /\ IF cat = 0
       THEN Return(p, [seen EXCEPT !.err = "ErrCategoryIDMissing"])
       ELSE IF IsZero(at)
       THEN Return(p, [call EXCEPT !.err = "ErrDateMissing"])
       ELSE IF ~SelectCategory(cat)
       THEN Return(p, [call EXCEPT !.err = "ErrCategoryNotFound"])
       ELSE /\ txSeq + Cardinality({q \in clients : HoldsShared(q)}) < MaxTx
            /\ pc' = [pc EXCEPT ![p] = "AT_insert"]
            /\ loc' = [loc EXCEPT ![p] =
                         [call EXCEPT !.amount = amount, !.note = note]]
            /\ last' = NoCall

\* The INSERT and the Commit of AddTransaction.  A Commit that SQLite refuses
\* as busy writes no row; the returned record keeps the arguments the caller
\* can still tell apart (category, instant) and the new id.
AddTransactionInsert(p) ==
    LET call == [loc[p] EXCEPT !.amount = 0, !.note = ""]
        id == NextRowId(txSeq, transactions)
    IN
    /\ p \in clients
    /\ pc[p] = "AT_insert"
    /\ UNCHANGED <<money, inputs, categories, catSeq, budgets, deleted>>
    /\ IF ~ForeignKeyOk(loc[p].cat)
       THEN /\ Return(p, [call EXCEPT !.err = "ErrForeignKey"])
            /\ UNCHANGED <<transactions, txSeq>>
       ELSE IF ~CanCommit(p)
       THEN /\ Return(p, [call EXCEPT !.err = "ErrBusy"])
            /\ UNCHANGED <<transactions, txSeq>>
       ELSE /\ transactions' = transactions \cup
                    {[id |-> id,
                      category_id |-> loc[p].cat,
                      amount_kopeks |-> loc[p].amount,
                      occurred_at |-> FormatRFC3339(loc[p].at),
                      note |-> loc[p].note,
                      instant |-> loc[p].at]}
            /\ txSeq' = id
            /\ Return(p, [call EXCEPT !.id = id])

\* Faulty variant: an empty note keeps the stored one (a merge).
UpdateRowKeepNote(rows, id, cat, amount, at, note) ==
    {IF t.id = id
     THEN [id |-> id,
           category_id |-> cat,
           amount_kopeks |-> amount,
           occurred_at |-> FormatRFC3339(at),
           note |-> IF note = "" THEN t.note ELSE note,
           instant |-> at]
     ELSE t : t \in rows}

\* The UPDATE of the row id: category, amount, date and note are all set.
UpdateRow(rows, id, cat, amount, at, note) ==
    {IF t.id = id
     THEN [id |-> id,
           category_id |-> cat,
           amount_kopeks |-> amount,
           occurred_at |-> FormatRFC3339(at),
           note |-> note,
           instant |-> at]
     ELSE t : t \in rows}

UpdateTransaction(p, id, cat, amount, at, note) ==
    LET seen == [NoCall EXCEPT !.op = "UpdateTransaction", !.cat = cat]
        dated == [seen EXCEPT !.at = at]
        call == [dated EXCEPT !.id = id]
        done == [call EXCEPT !.amount = amount, !.note = note]
    IN
    /\ Idle(p)
    /\ UNCHANGED <<money, inputs, categories, catSeq, budgets, txSeq, deleted>>
    /\ IF cat = 0
       THEN /\ Return(p, [seen EXCEPT !.err = "ErrCategoryIDMissing"])
            /\ UNCHANGED transactions
       ELSE IF IsZero(at)
       THEN /\ Return(p, [dated EXCEPT !.err = "ErrDateMissing"])
            /\ UNCHANGED transactions
       ELSE IF ~CategoryExists(cat)
       THEN /\ Return(p, [dated EXCEPT !.err = "ErrCategoryNotFound"])
            /\ UNCHANGED transactions
       ELSE IF ~\E t \in transactions : t.id = id
       THEN /\ Return(p, [call EXCEPT !.err = "ErrTransactionNotFound"])
            /\ UNCHANGED transactions
       ELSE IF ~CanCommit(p)
       THEN /\ Return(p, [call EXCEPT !.err = "ErrBusy"])
            /\ UNCHANGED transactions
       ELSE /\ transactions' = UpdateRow(transactions, id, cat, amount, at, note)
            /\ Return(p, done)

Summary(p, from, to) ==
    /\ Idle(p)
    /\ UNCHANGED <<money, inputs, categories, catSeq, budgets, transactions, txSeq,
                   deleted>>
    /\ Return(p, [NoCall EXCEPT !.op = "Summary", !.from = from, !.to = to,
                                !.out = SummaryRows(transactions, from, to)])

\* UpsertBudget up to and with the Exec of the upsert.
UpsertBudgetExec(p, cat, limit) ==
    LET seen == [NoCall EXCEPT !.op = "UpsertBudget", !.cat = cat]
        call == [seen EXCEPT !.limit = limit]
    IN
    /\ Idle(p)
    /\ UNCHANGED <<money, inputs, categories, catSeq, transactions, txSeq, deleted>>
    /\ IF cat = 0
       THEN /\ Return(p, [seen EXCEPT !.err = "ErrCategoryIDMissing"])
            /\ UNCHANGED budgets
       ELSE IF LimitInvalid(limit)
       THEN /\ Return(p, [call EXCEPT !.err = "ErrLimitNotPositive"])
            /\ UNCHANGED budgets
       ELSE IF ~ForeignKeyOk(cat)
       THEN /\ Return(p, [call EXCEPT !.err = "ErrForeignKey"])
            /\ UNCHANGED budgets
       ELSE IF ~CanCommit(p)
       THEN /\ Return(p, [call EXCEPT !.err = "ErrBusy"])
            /\ UNCHANGED budgets
       ELSE /\ budgets' = UpsertRow(budgets, cat, limit)
            /\ pc' = [pc EXCEPT ![p] = "UB_read"]
            /\ loc' = [loc EXCEPT ![p] = call]
            /\ last' = NoCall

\* The QueryRow that reads the budget back.
UpsertBudgetRead(p) ==
    LET found == {b \in BudgetRows : b.category_id = loc[p].cat}
    IN
    /\ p \in clients
    /\ pc[p] = "UB_read"
    /\ UNCHANGED <<money, inputs, categories, catSeq, budgets, transactions, txSeq,
                   deleted>>
    /\ IF found = {}
       THEN Return(p, [loc[p] EXCEPT !.err = "ErrNoRows"])
       ELSE Return(p, [loc[p] EXCEPT !.out =
                 {[CategoryID |-> b.category_id,
                   LimitKopeks |-> b.limit_kopeks,
                   CategoryName |-> NameOf(b.category_id)] : b \in found}])

\* Faulty variant: the tables are dropped and created anew.
CreateTableFresh(rows) == {}

\* CREATE TABLE IF NOT EXISTS on a table that exists: its rows stay.
CreateTableIfNotExists(rows) == rows

\* InitDB on the file of a store that is in use: the process starts again,
\* no call is in flight.  sqlite_sequence is SQLite's own table and is not
\* part of the schema text.
InitDB ==
    /\ \A p \in clients : pc[p] = "idle"
    /\ categories' = CreateTableIfNotExists(categories)
    /\ budgets' = CreateTableIfNotExists(budgets)
    /\ transactions' = CreateTableIfNotExists(transactions)
    /\ last' = [NoCall EXCEPT !.op = "InitDB"]
    /\ UNCHANGED <<money, inputs, catSeq, txSeq, deleted, pc, loc, during>>

\* ExceededBudgets up to and with its call of Summary.
ExceededBudgetsSummary(p, from, to) ==
    /\ Idle(p)
    /\ UNCHANGED <<money, inputs, categories, catSeq, budgets, transactions, txSeq,
                   deleted>>
    /\ pc' = [pc EXCEPT ![p] = "EB_budgets"]
    /\ loc' = [loc EXCEPT ![p] =
                 [NoCall EXCEPT !.op = "ExceededBudgets", !.from = from,
                                !.to = to,
                                !.out = SummaryRows(transactions, from, to)]]
    /\ last' = NoCall

\* The query of the budgets and the loop that emits the alerts.
ExceededBudgetsAlerts(p) ==
    /\ p \in clients
    /\ pc[p] = "EB_budgets"
    /\ UNCHANGED <<money, inputs, categories, catSeq, budgets, transactions, txSeq,
                   deleted>>
    /\ Return(p, [loc[p] EXCEPT !.out = Alerts(loc[p].out, BudgetRows)])

\* ------------------------------------------------------------------ claims
IdsOf(rows) == {c.id : c \in rows}

\* A call of op returned in this step.
Returned(op) == last'.op = op /\ last' # last

TablesUnchanged ==
    /\ categories' = categories
    /\ budgets' = budgets
    /\ transactions' = transactions
    /\ catSeq' = catSeq
    /\ txSeq' = txSeq

\* C1: every stored transaction references a category that exists, and a
\* client that has passed AddTransaction's existence check still has its
\* category when it inserts: no deletion takes effect in between.
C1_ReferentialIntegrity ==
    /\ \A t \in transactions : t.category_id \in IdsOf(categories)
    /\ \A p \in clients :
         pc[p] = "AT_insert" => loc[p].cat \in IdsOf(categories)

\* A DeleteCategory of the category of an AddTransaction that stands between
\* its check and its insert has just been refused.
C1_Witness ==
    \E p \in clients :
        /\ pc[p] = "AT_insert"
        /\ last.op = "DeleteCategory"
        /\ last.id = loc[p].cat
        /\ last.err = "ErrBusy"
        /\ transactions # {}

\* C2: an AddTransaction with a non-zero categoryID (and a date) that names no
\* category returns the not-found error and leaves every table as it was.
C2_AddTransactionNotFound ==
    [][(/\ Returned("AddTransaction")
        /\ last'.cat # 0
        /\ ~IsZero(last'.at)
        /\ last'.cat \notin IdsOf(categories))
       => (/\ last'.err = "ErrCategoryNotFound"
           /\ ErrorKind(last'.err) = "NotFoundError"
           /\ TablesUnchanged)]_vars

\* The call failed so on a store that holds transactions and a budget, for a
\* category that was deleted before.
C2_Witness ==
    /\ last.op = "AddTransaction"
    /\ last.err = "ErrCategoryNotFound"
    /\ last.cat \in deleted
    /\ transactions # {}
    /\ budgets # {}

\* The whole second of an instant.
WholeSecond(t) == t - (t % TicksPerSecond)

RECURSIVE SumAmounts(_)
SumAmounts(rows) ==
    IF rows = {} THEN 0
    ELSE LET r == CHOOSE x \in rows : TRUE
         IN r.amount_kopeks + SumAmounts(rows \ {r})

\* The aggregates the specification defines, over the rows given.
Aggregates(rows) ==
    {[CategoryID |-> c,
      IncomeKopeks |->
          SumAmounts({r \in rows : r.category_id = c /\ r.amount_kopeks >= 0}),
      ExpenseKopeks |->
          SumAmounts({r \in rows : r.category_id = c /\ r.amount_kopeks < 0}),
      NetKopeks |-> SumAmounts({r \in rows : r.category_id = c}),
      Count |-> Cardinality({r \in rows : r.category_id = c})]
        : c \in {r.category_id : r \in rows}}

\* The transactions dated in [from, to], by their instants.
DatedIn(from, to) ==
    {t \in transactions : from <= t.instant /\ t.instant <= to}

\* The transactions whose whole second lies between those of from and to.
DatedInSeconds(from, to) ==
    {t \in transactions :
        /\ WholeSecond(from) <= WholeSecond(t.instant)
        /\ WholeSecond(t.instant) <= WholeSecond(to)}

SummaryReturned ==
    /\ last.op = "Summary"
    /\ ~IsZero(last.from)
    /\ ~IsZero(last.to)
    /\ last.from <= last.to

\* C3 as stated: Summary(from, to) with from <= to returns exactly the
\* aggregates of the stored transactions dated in [from, to].
C3_SummaryExactInstants ==
    SummaryReturned => last.out = Aggregates(DatedIn(last.from, last.to))

\* C3 as amended: Summary(from, to) with both bounds set and from <= to returns
\* exactly the aggregates (income, expense, net, count per category) of the
\* stored transactions whose instant, cut to the whole second, lies between
\* from and to cut to the whole second.
C3_SummaryWholeSeconds ==
    SummaryReturned =>
        last.out = Aggregates(DatedInSeconds(last.from, last.to))

\* A summary of a category with income and expense in the range.
C3_Witness ==
    /\ SummaryReturned
    /\ \E s \in last.out :
          /\ s.Count = 2
          /\ s.IncomeKopeks > 0
          /\ s.ExpenseKopeks < 0
          /\ s.NetKopeks = s.IncomeKopeks + s.ExpenseKopeks

AlertsReturned ==
    /\ last.op = "ExceededBudgets"
    /\ ~IsZero(last.from)
    /\ ~IsZero(last.to)

Least(a, b) == IF a <= b THEN a ELSE b

Greatest(a, b) == IF a <= b THEN b ELSE a

\* The transactions of category c in the range of the call that returned
\* last, the range being the one Summary aggregates (C3).
InRangeOf(c) ==
    {t \in DatedInSeconds(Least(last.from, last.to),
                          Greatest(last.from, last.to)) : t.category_id = c}

\* What category c spent in that range: minus the sum of its negative amounts.
SpentIn(c) == -SumAmounts({t \in InRangeOf(c) : t.amount_kopeks < 0})

HasBudget(c) == \E b \in budgets : b.category_id = c

\* C4: ExceededBudgets returns one alert for each budgeted category whose
\* spent (minus the sum of its negative in-range amounts; income does not
\* count, no transaction means 0) is greater than its limit, and no other
\* alert; the alert carries the limit, the spent and exceededBy = spent -
\* limit > 0.
C4_AlertsExact ==
    AlertsReturned =>
        /\ \A b \in budgets :
              (SpentIn(b.category_id) > b.limit_kopeks)
                 <=> (\E a \in last.out : a.CategoryID = b.category_id)
        /\ \A a \in last.out :
              /\ \E b \in budgets :
                    /\ b.category_id = a.CategoryID
                    /\ a.LimitKopeks = b.limit_kopeks
              /\ a.SpentKopeks = SpentIn(a.CategoryID)
              /\ a.ExceededByKopeks = a.SpentKopeks - a.LimitKopeks
              /\ a.ExceededByKopeks > 0
        /\ \A a1, a2 \in last.out : a1.CategoryID = a2.CategoryID => a1 = a2

\* An alert for a category that also has income in the range: the income did
\* not reduce the spent.
C4_Witness ==
    /\ AlertsReturned
    /\ \E a \in last.out :
          /\ a.ExceededByKopeks = 1
          /\ \E t \in InRangeOf(a.CategoryID) : t.amount_kopeks > 0
          /\ -SumAmounts(InRangeOf(a.CategoryID)) <= a.LimitKopeks

\* C5: a budgeted category whose spent in the range equals its limit gets no
\* alert.
C5_NoAlertAtLimit ==
    AlertsReturned =>
        \A b \in budgets :
            SpentIn(b.category_id) = b.limit_kopeks
               => ~\E a \in last.out : a.CategoryID = b.category_id

\* ExceededBudgets returned with a category that spent exactly its limit.
C5_Witness ==
    /\ AlertsReturned
    /\ \E b \in budgets :
          /\ SpentIn(b.category_id) = b.limit_kopeks
          /\ InRangeOf(b.category_id) # {}
          /\ ~\E a \in last.out : a.CategoryID = b.category_id

\* C6: a category without a budget row is in no alert ExceededBudgets returns.
C6_NoBudgetNoAlert ==
    last.op = "ExceededBudgets" =>
        \A a \in last.out : HasBudget(a.CategoryID)

\* ExceededBudgets returned while a category without a budget had spent more
\* than any limit the clients set.
C6_Witness ==
    /\ AlertsReturned
    /\ \E c \in categories :
          /\ ~HasBudget(c.id)
          /\ \A l \in inputs.limits : SpentIn(c.id) > l
          /\ ~\E a \in last.out : a.CategoryID = c.id

\* C7: once DeleteCategory(id) has succeeded, no transaction and no budget of
\* id is stored, and no Summary entry and no ExceededBudgets alert names id,
\* whatever is called afterwards.
C7_DeletedStaysGone ==
    \A id \in deleted :
        /\ \A t \in transactions : t.category_id # id
        /\ \A b \in budgets : b.category_id # id
        /\ last.op = "Summary" => \A s \in last.out : s.CategoryID # id
        /\ last.op = "ExceededBudgets" => \A a \in last.out : a.CategoryID # id

\* A category with a budget and transactions was deleted, and a later
\* ExceededBudgets reports another category.
C7_Witness ==
    /\ deleted # {}
    /\ Cardinality(transactions) < txSeq
    /\ last.op = "ExceededBudgets"
    /\ last.out # {}

AtMostOneBudgetPerCategory ==
    \A b1, b2 \in budgets : b1.category_id = b2.category_id => b1 = b2

\* Client p ran the upsert statement of UpsertBudget in this step.
Upserted(p) == pc[p] = "idle" /\ pc'[p] = "UB_read"

\* C8: the budgets table holds at most one row per category, and an upsert
\* leaves exactly one row for its category, carrying the limit given, and the
\* rows of the other categories as they were; so of two concurrent upserts of
\* one category the limit that stays is one of the two.
C8_OneBudgetPerCategory ==
    [][/\ AtMostOneBudgetPerCategory'
       /\ \A p \in clients :
            Upserted(p) =>
                budgets' = {b \in budgets : b.category_id # loc'[p].cat}
                             \cup {[category_id |-> loc'[p].cat,
                                    limit_kopeks |-> loc'[p].limit]}]_vars

\* Two clients have upserted different limits for one category and neither
\* has read its budget back; the table holds the one row.
C8_Witness ==
    /\ pc["p1"] = "UB_read"
    /\ pc["p2"] = "UB_read"
    /\ loc["p1"].cat = loc["p2"].cat
    /\ loc["p1"].limit # loc["p2"].limit
    /\ Cardinality(budgets) = 1

\* C9: UpsertBudget with categoryID 0 or a limit <= 0 returns a validation
\* error and leaves every table as it was; every stored limit is positive.
C9_BudgetValidation ==
    [][/\ \A b \in budgets' : b.limit_kopeks > 0
       /\ (Returned("UpsertBudget") /\ (last'.cat = 0 \/ last'.limit <= 0))
            => (/\ ErrorKind(last'.err) = "ValidationError"
                /\ TablesUnchanged)]_vars

\* A limit <= 0 was refused for a category that has a budget.
C9_Witness ==
    /\ last.op = "UpsertBudget"
    /\ last.err = "ErrLimitNotPositive"
    /\ last.limit <= 0
    /\ HasBudget(last.cat)

\* C10: UpsertBudget with a positive limit and a categoryID that names no
\* category returns a not-found error and writes no row; the category of
\* every stored budget exists.
C10_BudgetCategoryExists ==
    [][/\ \A b \in budgets' : b.category_id \in IdsOf(categories')
       /\ (/\ Returned("UpsertBudget")
           /\ last'.cat # 0
           /\ last'.limit > 0
           /\ last'.cat \notin IdsOf(categories))
            => (/\ ErrorKind(last'.err) = "NotFoundError"
                /\ TablesUnchanged)]_vars

\* The upsert was refused for a category deleted before, on a store that
\* holds another budget.
C10_Witness ==
    /\ last.op = "UpsertBudget"
    /\ last.err = "ErrForeignKey"
    /\ last.limit > 0
    /\ last.cat \in deleted
    /\ budgets # {}

\* The bounds of a range with the documented default for an unset one.
DefaultFrom(from) == IF IsZero(from) THEN Epoch ELSE from

DefaultTo(to) == IF IsZero(to) THEN Now ELSE to

\* C11: a Summary with exactly one bound unset returns the aggregates of the
\* transactions dated between the bounds, the unset one replaced by its
\* default and the other kept: [epoch, to] and [from, now] (whole seconds).
C11_MissingBoundDefaults ==
    (last.op = "Summary" /\ IsZero(last.from) # IsZero(last.to)) =>
        last.out = Aggregates(DatedInSeconds(DefaultFrom(last.from),
                                             DefaultTo(last.to)))

\* C12: on every store and for any two set instants a and b, Summary(a, b)
\* and Summary(b, a) return the same entries and ExceededBudgets(a, b) and
\* ExceededBudgets(b, a) the same alerts.
C12_ReversedRangeSame ==
    \A a, b \in QueryInstants \ {ZeroTime} :
        /\ SummaryRows(transactions, a, b) = SummaryRows(transactions, b, a)
        /\ Alerts(SummaryRows(transactions, a, b), BudgetRows)
              = Alerts(SummaryRows(transactions, b, a), BudgetRows)
        /\ (last.op = "Summary" /\ last.from = a /\ last.to = b)
              => last.out = SummaryRows(transactions, b, a)
        /\ (last.op = "ExceededBudgets" /\ last.from = a /\ last.to = b)
              => last.out = Alerts(SummaryRows(transactions, b, a), BudgetRows)

\* ExceededBudgets was called with a reversed range that spans more than one
\* second and returned an alert.
C12_Witness ==
    /\ last.op = "ExceededBudgets"
    /\ ~IsZero(last.to)
    /\ WholeSecond(last.to) < WholeSecond(last.from)
    /\ last.out # {}
    /\ \E t \in transactions : WholeSecond(t.instant) < WholeSecond(last.from)

\* The entry of category c in the summary returned last: its count and net,
\* 0 when the category has no entry.
CountOf(c) ==
    IF \E s \in last.out : s.CategoryID = c
    THEN (CHOOSE s \in last.out : s.CategoryID = c).Count
    ELSE 0

NetOf(c) ==
    IF \E s \in last.out : s.CategoryID = c
    THEN (CHOOSE s \in last.out : s.CategoryID = c).NetKopeks
    ELSE 0

\* C13 as stated: a transaction counts in Summary(from, to) exactly when its
\* instant lies in [from, to], both ends included.
C13_InclusiveExactInstants ==
    SummaryReturned =>
        \A c \in IdsOf(categories) :
            LET in == {t \in DatedIn(last.from, last.to) : t.category_id = c}
            IN CountOf(c) = Cardinality(in) /\ NetOf(c) = SumAmounts(in)

\* C13 as amended: a transaction counts in Summary(from, to) exactly when the
\* whole second of its instant is not before that of from and not after that
\* of to; one in the second of from or of to is included.
C13_InclusiveWholeSeconds ==
    SummaryReturned =>
        \A c \in IdsOf(categories) :
            LET in == {t \in transactions :
                          /\ t.category_id = c
                          /\ ~(WholeSecond(t.instant) < WholeSecond(last.from))
                          /\ ~(WholeSecond(t.instant) > WholeSecond(last.to))}
            IN CountOf(c) = Cardinality(in) /\ NetOf(c) = SumAmounts(in)

\* A summary of a one-second range with a transaction on that second, which
\* is counted, and another after it, which is not.
C13_Witness ==
    /\ SummaryReturned
    /\ WholeSecond(last.from) = WholeSecond(last.to)
    /\ \E t \in transactions :
          /\ WholeSecond(t.instant) = WholeSecond(last.to)
          /\ CountOf(t.category_id) = 1
    /\ \E t \in transactions : WholeSecond(t.instant) > WholeSecond(last.to)

\* C14: Summary returns at most one entry per category, every entry counts at
\* least one stored transaction of its category, a category without a
\* transaction in the range has no entry, and one whose transactions in the
\* range all have amount 0 has an entry with income 0 and expense 0.
C14_NoEmptyEntries ==
    last.op = "Summary" =>
        /\ \A s1, s2 \in last.out : s1.CategoryID = s2.CategoryID => s1 = s2
        /\ \A s \in last.out :
              /\ s.Count >= 1
              /\ s.Count <= Cardinality({t \in transactions :
                                           t.category_id = s.CategoryID})
        /\ SummaryReturned =>
              \A c \in IdsOf(categories) :
                  LET in == {t \in DatedInSeconds(last.from, last.to) :
                                t.category_id = c}
                  IN /\ in = {} => ~\E s \in last.out : s.CategoryID = c
                     /\ (in # {} /\ \A t \in in : t.amount_kopeks = 0)
                          => \E s \in last.out :
                                /\ s.CategoryID = c
                                /\ s.IncomeKopeks = 0
                                /\ s.ExpenseKopeks = 0
                                /\ s.Count = Cardinality(in)

\* A summary that lists a category whose only transaction in the range has
\* amount 0 and omits a category whose transaction is out of the range.
C14_Witness ==
    /\ SummaryReturned
    /\ \E s \in last.out :
          s.IncomeKopeks = 0 /\ s.ExpenseKopeks = 0 /\ s.Count = 1
    /\ \E t \in transactions : ~\E s \in last.out : s.CategoryID = t.category_id

NamesDistinct(rows) == \A c1, c2 \in rows : c1.name = c2.name => c1 = c2

\* C15: category names are non-empty and pairwise distinct in every state; a
\* CreateCategory with an empty name returns a validation error and one with a
\* name the table holds a conflict error, both leaving every table as it
\* was, so of two clients that create one name at most one succeeds.
C15_NamesUnique ==
    [][/\ \A c \in categories' : c.name # ""
       /\ NamesDistinct(categories')
       /\ (Returned("CreateCategory") /\ last'.name = "")
            => (ErrorKind(last'.err) = "ValidationError" /\ TablesUnchanged)
       /\ (Returned("CreateCategory")
              /\ \E c \in categories : c.name = last'.name)
            => (ErrorKind(last'.err) = "ConflictError" /\ TablesUnchanged)
       /\ (Returned("CreateCategory") /\ last'.err = NoError)
            => (/\ categories' =
                     categories \cup {[id |-> last'.id, name |-> last'.name]}
                /\ last'.id \notin IdsOf(categories))]_vars

\* The second of two clients was refused a name that the table holds, while
\* the first was in the middle of another call.
C15_Witness ==
    /\ last.op = "CreateCategory"
    /\ last.proc = "p2"
    /\ last.err = "ErrUnique"
    /\ pc["p1"] # "idle"
    /\ Cardinality(categories) = 2

\* C16: an UpdateTransaction that names a stored transaction and an existing
\* category, with a date, replaces category, amount, date and note of that
\* row by the values given and changes no other row; with categoryID 0 or no
\* date it returns a validation error, with a category or a transaction that
\* does not exist a not-found error, and every failure leaves the tables as
\* they were.
C16_UpdateReplaces ==
    [][Returned("UpdateTransaction") =>
        /\ last'.cat = 0 => ErrorKind(last'.err) = "ValidationError"
        /\ (last'.cat # 0 /\ last'.at = ZeroTime)
              => ErrorKind(last'.err) = "ValidationError"
        /\ (last'.cat # 0 /\ last'.at # ZeroTime
                /\ last'.cat \notin IdsOf(categories))
              => ErrorKind(last'.err) = "NotFoundError"
        /\ (last'.cat \in IdsOf(categories) /\ last'.at # ZeroTime
                /\ last'.id \notin IdsOf(transactions))
              => ErrorKind(last'.err) = "NotFoundError"
        /\ last'.err # NoError => TablesUnchanged
        /\ last'.err = NoError =>
              /\ last'.cat \in IdsOf(categories)
              /\ last'.id \in IdsOf(transactions)
              /\ transactions' =
                    {t \in transactions : t.id # last'.id}
                      \cup {[id |-> last'.id,
                             category_id |-> last'.cat,
                             amount_kopeks |-> last'.amount,
                             occurred_at |-> last'.at \div TicksPerSecond,
                             note |-> last'.note,
                             instant |-> last'.at]}
              /\ categories' = categories
              /\ budgets' = budgets]_vars

\* An update has emptied the note of one of two transactions and moved it to
\* the other category.
C16_Witness ==
    /\ last.op = "UpdateTransaction"
    /\ last.err = NoError
    /\ last.note = ""
    /\ Cardinality(transactions) = 2
    /\ \E t \in transactions :
          t.id = last.id /\ t.note = "" /\ t.category_id = 2
    /\ \E t \in transactions : t.id # last.id /\ t.note # ""

\* C17: an AddTransaction with categoryID 0 or without a date returns a
\* validation error from its first step, before the store is touched, and
\* writes nothing; one that passes the checks adds exactly one row, with an
\* id no row ever had and the category, amount and note given, and changes
\* no other row.
C17_AddTransactionWrites ==
    [][\A p \in clients :
        /\ (Returned("AddTransaction") /\ last'.proc = p
               /\ (last'.cat = 0 \/ last'.at = ZeroTime))
             => (/\ ErrorKind(last'.err) = "ValidationError"
                 /\ pc[p] = "idle"
                 /\ TablesUnchanged)
        /\ (pc[p] = "AT_insert" /\ pc'[p] = "idle")
             => (/\ last'.err = NoError
                 /\ last'.id > txSeq
                 /\ last'.id \notin IdsOf(transactions)
                 /\ transactions' = transactions \cup
                       {[id |-> last'.id,
                         category_id |-> loc[p].cat,
                         amount_kopeks |-> loc[p].amount,
                         occurred_at |-> loc[p].at \div TicksPerSecond,
                         note |-> loc[p].note,
                         instant |-> loc[p].at]}
                 /\ loc[p].cat \in IdsOf(categories)
                 /\ loc[p].at # ZeroTime
                 /\ categories' = categories
                 /\ budgets' = budgets)]_vars

\* A second transaction was added with amount 0 and an empty note, beside a
\* stored one with a negative amount.
C17_Witness ==
    /\ last.op = "AddTransaction"
    /\ last.err = NoError
    /\ \E t \in transactions :
          t.id = last.id /\ t.amount_kopeks = 0 /\ t.note = ""
    /\ \E t \in transactions : t.id < last.id /\ t.amount_kopeks < 0

\* C18: a DeleteCategory of an id that names no category returns a not-found
\* error and leaves every table as it was; one that succeeds removes that
\* category and leaves the transactions and budgets of every other category
\* as they were.
C18_DeleteFrame ==
    [][Returned("DeleteCategory") =>
        /\ last'.id \notin IdsOf(categories)
              => (ErrorKind(last'.err) = "NotFoundError" /\ TablesUnchanged)
        /\ last'.err = NoError =>
              /\ categories' = {c \in categories : c.id # last'.id}
              /\ {t \in transactions' : t.category_id # last'.id}
                    = {t \in transactions : t.category_id # last'.id}
              /\ {b \in budgets' : b.category_id # last'.id}
                    = {b \in budgets : b.category_id # last'.id}]_vars

\* A category with a transaction was deleted and the transaction and the
\* budget of the other category are still stored.
C18_Witness ==
    /\ last.op = "DeleteCategory"
    /\ last.err = NoError
    /\ Cardinality(transactions) < txSeq
    /\ \E t \in transactions : t.category_id # last.id
    /\ \E b \in budgets : b.category_id # last.id

\* A decimal was parsed and converted to minor units.
DecimalConverted == money.op = "rublesToKopeks" /\ money.of = "parseRub"

\* C19: every decimal with at most two fractional digits is converted to
\* exactly its count of minor units, whatever its sign.
C19_DecimalsExact == DecimalConverted => money.out = money.n

\* C19 on the amounts the significand resolves: a decimal whose count of
\* minor units is below 2^(Precision - 2) in magnitude is converted to
\* exactly that count, whatever its sign; so 12.34 gives 1234, -32.00 gives
\* -3200 and -0.01 gives -1.
C19_SmallDecimalsExact ==
    (DecimalConverted /\ Abs(money.n) < Pow2(Precision - 2))
        => money.out = money.n

\* A negative decimal whose product with 100 is not an integer in floating
\* point and lies nearer to zero than its count of minor units was
\* converted to exactly that count.
C19_Witness ==
    /\ DecimalConverted
    /\ money.n < 0
    /\ Abs(money.n) < Pow2(Precision - 2)
    /\ MathTrunc(Product(money.rub, 100)) > money.n
    /\ money.out = money.n

\* C20: the conversion of minor units to the decimal form and back returns
\* the minor units it started from, for every integer.
C20_RoundTrip ==
    (money.op = "rublesToKopeks" /\ money.of = "kopeksToRubles")
        => money.out = money.n

\* C21: an InitDB on a store that holds categories, transactions and
\* budgets leaves every row and every id sequence as it was, so a second
\* initialisation gives the store the first gave.
C21_InitIdempotent ==
    [][Returned("InitDB") => TablesUnchanged]_vars

\* InitDB has run on a store that holds a category, a transaction and a
\* budget, after a category was deleted.
C21_Witness ==
    /\ last.op = "InitDB"
    /\ categories # {}
    /\ transactions # {}
    /\ budgets # {}
    /\ deleted # {}

\* C22: every alert ExceededBudgets returns gives a limit and a spent that
\* the alerted category had together in one store state between the call's
\* first read and its last, whatever other clients wrote in between.
C22_AlertsFromOneState ==
    [][\A p \in clients :
        (pc[p] = "EB_budgets" /\ pc'[p] = "idle")
            => \A a \in last'.out :
                  <<a.CategoryID, a.LimitKopeks, a.SpentKopeks>> \in during[p]]_vars

\* C23: an UpsertBudget(c, L) whose write took effect returns no error and
\* the budget of category c with limit L, whatever other clients did between
\* its write and its read-back.
C23_UpsertReturnsOwnWrite ==
    [][\A p \in clients :
        (pc[p] = "UB_read" /\ pc'[p] = "idle")
            => /\ last'.err = NoError
               /\ last'.out # {}
               /\ \A b \in last'.out : /\ b.CategoryID = loc[p].cat
                                       /\ b.LimitKopeks = loc[p].limit]_vars

\* C24: an id of a deleted category is never handed out again: a successful
\* CreateCategory returns an id that no category has or ever had, and no
\* transaction and no budget carries it; an AddTransaction or UpsertBudget
\* called with the id of a deleted category fails and writes nothing.
C24_IdsNeverReused ==
    [][/\ deleted' \cap IdsOf(categories') = {}
       /\ (Returned("CreateCategory") /\ last'.err = NoError)
            => /\ last'.id \notin deleted \cup IdsOf(categories)
               /\ last'.id \in IdsOf(categories')
               /\ \A t \in transactions' : t.category_id # last'.id
               /\ \A b \in budgets' : b.category_id # last'.id
       /\ \A p \in clients :
            (pc[p] = "idle" /\ pc'[p] \in {"AT_insert", "UB_read"})
                => loc'[p].cat \notin deleted
       /\ \A op \in {"AddTransaction", "UpsertBudget"} :
            (Returned(op) /\ last'.cat \in deleted)
                => last'.err # NoError /\ TablesUnchanged]_vars

\* AddTransaction with the id of a deleted category was rejected while a
\* category created later is stored under a newer id.
C24_Witness ==
    /\ last.op = "AddTransaction"
    /\ last.cat \in deleted
    /\ last.err = "ErrCategoryNotFound"
    /\ \E c \in categories : c.id > last.cat

\* -------------------------------------------------------------------- runs
InitTables ==
    /\ categories = {}
    /\ catSeq = 0
    /\ budgets = {}
    /\ transactions = {}
    /\ txSeq = 0
    /\ deleted = {}
    /\ pc = [p \in Procs |-> "idle"]
    /\ loc = [p \in Procs |-> NoCall]
    /\ last = NoCall
    /\ money = NoMoney
    /\ during = [p \in Procs |-> {}]

\* One request at a time.
Init ==
    /\ inputs = [clients |-> {"p1"}, amounts |-> {-2, 1}, notes |-> {"n"},
                 instants |-> Instants, limits |-> {1, 2},
                 queries |-> (MaxTick - 1) .. MaxTick,
                 history |-> FALSE]
    /\ InitTables

\* Two requests served concurrently.
InitConcurrent ==
    /\ inputs = [clients |-> Procs, amounts |-> {-2}, notes |-> {"n"},
                 instants |-> {MaxTick - 1}, limits |-> {1, 3},
                 queries |-> {MaxTick - 1},
                 history |-> FALSE]
    /\ InitTables

\* What a store holds for an ExceededBudgets call: category, limit and spent
\* in the call's range of every budget.
AlertFacts(cats, buds, txs, call) ==
    LET summary == SummaryRows(txs, call.from, call.to)
    IN {<<b.category_id, b.limit_kopeks, -ExpenseOf(summary, b.category_id)>>
          : b \in {x \in buds : x.category_id \in {c.id : c \in cats}}}

\* The history of the stores a running ExceededBudgets has lived through,
\* from its first read on; kept in the runs that ask for it.
Observe ==
    IF inputs.history
    THEN during' = [q \in Procs |->
                      IF pc'[q] = "EB_budgets"
                      THEN (IF pc[q] = "EB_budgets" THEN during[q] ELSE {})
                             \cup AlertFacts(categories', budgets',
                                             transactions', loc'[q])
                      ELSE {}]
    ELSE during' = during

Next ==
    \E p \in Procs :
        \/ /\ \E name \in NameArgs : CreateCategory(p, name)
           /\ Observe
        \/ /\ \E id \in CatArgs : DeleteCategory(p, id)
           /\ Observe
        \/ /\ \E cat \in CatArgs, amount \in Amounts, at \in InstantArgs,
                 note \in Notes : AddTransactionCheck(p, cat, amount, at, note)
           /\ Observe
        \/ /\ AddTransactionInsert(p)
           /\ Observe
        \/ /\ \E id \in TxIdArgs, cat \in CatArgs, amount \in Amounts,
                 at \in InstantArgs, note \in Notes :
                   UpdateTransaction(p, id, cat, amount, at, note)
           /\ Observe
        \/ /\ \E from \in QueryInstants, to \in QueryInstants :
                   Summary(p, from, to)
           /\ Observe
        \/ /\ \E cat \in CatArgs, limit \in LimitArgs :
                   UpsertBudgetExec(p, cat, limit)
           /\ Observe
        \/ /\ UpsertBudgetRead(p)
           /\ Observe
        \/ /\ \E from \in QueryInstants, to \in QueryInstants :
                   ExceededBudgetsSummary(p, from, to)
           /\ Observe
        \/ /\ ExceededBudgetsAlerts(p)
           /\ Observe

\* One request at a time, with ranges that leave a bound unset, amounts of
\* 0 and empty notes.
InitRanges ==
    /\ inputs = [clients |-> {"p1"}, amounts |-> {-1, 0}, notes |-> {"", "n"},
                 instants |-> 1 .. (MaxTick - 1), limits |-> {1},
                 queries |-> {ZeroTime, 1, MaxTick},
                 history |-> FALSE]
    /\ InitTables

\* The amount a request carries as a decimal text is parsed.
ParseRub(n) ==
    /\ money.op = "none"
    /\ money' = [NoMoney EXCEPT !.op = "parseRub", !.n = n,
                                 !.rub = ParseFloat(n)]
    /\ UNCHANGED <<inputs, categories, catSeq, budgets, transactions, txSeq,
                   deleted, pc, loc, last, during>>

\* A stored amount is converted for display.
KopeksToRubles(n) ==
    /\ money.op = "none"
    /\ money' = [NoMoney EXCEPT !.op = "kopeksToRubles", !.n = n,
                                 !.rub = kopeksToRubles(n)]
    /\ UNCHANGED <<inputs, categories, catSeq, budgets, transactions, txSeq,
                   deleted, pc, loc, last, during>>

\* The decimal amount is converted to minor units.
RublesToKopeks ==
    /\ money.op \in {"parseRub", "kopeksToRubles"}
    /\ money' = [money EXCEPT !.op = "rublesToKopeks", !.of = money.op,
                               !.out = rublesToKopeks(money.rub)]
    /\ UNCHANGED <<inputs, categories, catSeq, budgets, transactions, txSeq,
                   deleted, pc, loc, last, during>>

\* The conversions alone, each amount of Kopeks converted once from the
\* start.
InitMoney ==
    /\ inputs = [clients |-> {}, amounts |-> {}, notes |-> {},
                 instants |-> {}, limits |-> {}, queries |-> {},
                 history |-> FALSE]
    /\ InitTables

NextMoney ==
    \/ money.op = "none" /\ \E n \in Kopeks : ParseRub(n)
    \/ money.op = "none" /\ \E n \in Kopeks : KopeksToRubles(n)
    \/ RublesToKopeks

\* One request at a time, and restarts of the process in between.
InitRestart ==
    /\ inputs = [clients |-> {"p1"}, amounts |-> {-2}, notes |-> {"n"},
                 instants |-> {MaxTick - 1}, limits |-> {1},
                 queries |-> {MaxTick - 1},
                 history |-> FALSE]
    /\ InitTables

NextRestart == Next \/ InitDB

\* Two requests served concurrently, with the history of what a running
\* ExceededBudgets could have seen.
InitObserved ==
    /\ inputs = [clients |-> Procs, amounts |-> {-2}, notes |-> {"n"},
                 instants |-> {MaxTick - 1}, limits |-> {1},
                 queries |-> {MaxTick - 1},
                 history |-> TRUE]
    /\ InitTables

Spec == Init /\ [][Next]_vars

SpecObserved == InitObserved /\ [][Next]_vars

SpecRestart == InitRestart /\ [][NextRestart]_vars

SpecMoney == InitMoney /\ [][NextMoney]_vars

SpecRanges == InitRanges /\ [][Next]_vars

SpecConcurrent == InitConcurrent /\ [][Next]_vars
====
